---- MODULE Spec2Model ----
(***************************************************************************)
(* Model of assets/script.js: the drought-prediction form controller.      *)
(*                                                                         *)
(* Strings the code inspects character by character (the date fields, the  *)
(* numeric fields) are sequences of one-character strings.  Messages are   *)
(* sequences of text pieces, so that a template literal or a "+" is a      *)
(* concatenation.  Accented letters of the source's messages are written   *)
(* without the accent, and the glyph U+274C of mostrarError is written     *)
(* "[X]": the module is ASCII.                                             *)
(*                                                                         *)
(* A Date's time value is kept in minutes since 1970-01-01T00:00Z (the     *)
(* code's dates all sit at midnight UTC, and a timezone offset is a whole  *)
(* number of minutes), not in milliseconds.                                *)
(***************************************************************************)
EXTENDS Integers, Sequences, FiniteSets, TLC

VARIABLES
    tz,             \* host timezone, minutes east of UTC (environment)
    engine,         \* host Date.parse: "strict" or "rollover" (environment)
    calcArgs,       \* <<fechaObjetivoISO, ultimaFechaISO>> of the last direct call
    calcResult,     \* what that call returned or threw
    pc,             \* where the submit handler is suspended
    in,             \* the form fields read by the current/last submission
    sent,           \* the payloads the current/last submission handed to fetch
    response,       \* the Response the handler holds while it parses the body
    console,        \* the message of the error logged by the current/last submission
    btnDisabled,    \* calcularBtn.disabled
    btnText,        \* calcularBtn.textContent
    errorVisible,   \* errorMessage.classList has "visible"
    errorText,      \* errorMessage.textContent
    resultsVisible, \* resultsSection.classList has "visible"
    riesgoText,     \* riesgoGlobal.textContent
    riesgoClass,    \* riesgoBox.className, as the sequence of its classes
    sequiaText,     \* sequiaInfo.textContent
    tbody,          \* prediccionTbody's rows
    nSubmits,       \* submit events handled so far (counted runs only)
    nCalls          \* calls of fetch made so far (counted runs only)

envVars  == <<tz, engine>>
calcVars == <<calcArgs, calcResult>>
domVars  == <<btnDisabled, btnText, errorVisible, errorText, resultsVisible,
              riesgoText, riesgoClass, sequiaText, tbody>>
formVars == <<pc, in, sent, response, console>>
countVars == <<nSubmits, nCalls>>
vars     == <<envVars, calcVars, formVars, domVars, countVars>>

-----------------------------------------------------------------------------
(* Bounds of the model. *)

\* Calendar years of the target dates enumerated: FirstYear .. FirstYear + YearSpan.
YearSpan == 2
\* Longest prediccion_mensual list a response carries.
MaxMonths == 2
\* Submit events of a counted run.
MaxSubmits == 2

-----------------------------------------------------------------------------
(* Characters and numbers. *)

Digits == <<"0", "1", "2", "3", "4", "5", "6", "7", "8", "9">>

IsDigit(c) == \E i \in 1..10 : Digits[i] = c

DigitVal(c) == (CHOOSE i \in 1..10 : Digits[i] = c) - 1

\* The value of a run of decimal digits.
RECURSIVE NumVal(_)
NumVal(s) == IF s = <<>> THEN 0
             ELSE 10 * NumVal(SubSeq(s, 1, Len(s) - 1)) + DigitVal(s[Len(s)])

AllDigits(s) == \A i \in 1..Len(s) : IsDigit(s[i])

\* String.prototype.includes for a one-character needle.
Includes(s, c) == \E i \in 1..Len(s) : s[i] = c

-----------------------------------------------------------------------------
(* The Date object: parsing and the local-time getters. *)

NaN == -1

IsLeap(y) == ((y % 4) = 0 /\ (y % 100) # 0) \/ (y % 400) = 0

DaysInMonth(y, m) ==
    IF m = 2 THEN (IF IsLeap(y) THEN 29 ELSE 28)
    ELSE IF m \in {4, 6, 9, 11} THEN 30 ELSE 31

\* Day number (days since 1970-01-01) of the civil date y-m-d, m in 1..12.
DaysFromCivil(y, m, d) ==
    LET yy  == IF m <= 2 THEN y - 1 ELSE y
        era == yy \div 400
        yoe == yy - era * 400
        mp  == IF m > 2 THEN m - 3 ELSE m + 9
        doy == (153 * mp + 2) \div 5 + d - 1
        doe == yoe * 365 + yoe \div 4 - yoe \div 100 + doy
    IN  era * 146097 + doe - 719468

\* The civil date of a day number, as [y, m, d] with m in 1..12.
CivilFromDays(z) ==
    LET zz  == z + 719468
        era == zz \div 146097
        doe == zz - era * 146097
        yoe == (doe - doe \div 1460 + doe \div 36524 - doe \div 146096) \div 365
        doy == doe - (365 * yoe + yoe \div 4 - yoe \div 100)
        mp  == (5 * doy + 2) \div 153
        d   == doy - (153 * mp + 2) \div 5 + 1
        m   == IF mp < 10 THEN mp + 3 ELSE mp - 9
        y   == yoe + era * 400 + (IF m <= 2 THEN 1 ELSE 0)
    IN  [y |-> y, m |-> m, d |-> d]

MinutesPerDay == 1440

UTCSuffix == <<"T", "0", "0", ":", "0", "0", ":", "0", "0", "Z">>

\* Whether the day-of-month d is accepted for month m of year y by the host's
\* parser: ECMAScript leaves a day past the month's end to the host, which
\* either rejects it ("strict") or accepts any day up to 31 and rolls over
\* into the next month ("rollover").
DayAccepted(eng, y, m, d) ==
    /\ d >= 1
    /\ IF eng = "strict" THEN d <= DaysInMonth(y, m) ELSE d <= 31

\* new Date(s) for s of the form YYYY-MM-DDT00:00:00Z: the time value, or NaN.
DateParse(eng, s) ==
    IF /\ Len(s) = 20
       /\ SubSeq(s, 11, 20) = UTCSuffix
       /\ s[5] = "-" /\ s[8] = "-"
       /\ AllDigits(SubSeq(s, 1, 4))
       /\ AllDigits(SubSeq(s, 6, 7))
       /\ AllDigits(SubSeq(s, 9, 10))
    THEN LET y == NumVal(SubSeq(s, 1, 4))
             m == NumVal(SubSeq(s, 6, 7))
             d == NumVal(SubSeq(s, 9, 10))
         IN  IF m \in 1..12 /\ DayAccepted(eng, y, m, d)
             THEN (DaysFromCivil(y, m, 1) + d - 1) * MinutesPerDay
             ELSE NaN
    ELSE NaN

\* The local civil date of time value t in a host tzMin minutes east of UTC.
LocalCivil(t, tzMin) == CivilFromDays((t + tzMin) \div MinutesPerDay)

\* Date.prototype.getFullYear and getMonth (0-based): local time.
GetFullYear(t, tzMin) == LocalCivil(t, tzMin).y
GetMonth(t, tzMin) == LocalCivil(t, tzMin).m - 1

-----------------------------------------------------------------------------
(* calcularMesesHastaFecha *)

MsgInvalidDate == <<"Las fechas no son validas.">>

MsgNonFuture(fechaObjetivoISO) ==
    <<"La fecha objetivo (">> \o fechaObjetivoISO
        \o <<") debe ser posterior a la ultima fecha disponible (marzo 2021).">>

Returned(v) == [threw |-> FALSE, value |-> v, message |-> <<>>]
Threw(msg)  == [threw |-> TRUE, value |-> 0, message |-> msg]

\* (variant: the shorthand is recognised by a length of 6)
NormalizeTarget_len6(fechaObjetivoISO) ==
    IF Includes(fechaObjetivoISO, "-") /\ Len(fechaObjetivoISO) = 6
    THEN fechaObjetivoISO \o <<"-", "0", "1">>
    ELSE fechaObjetivoISO

\* The year-month shorthand gets "-01" appended.
NormalizeTarget(fechaObjetivoISO) ==
    IF Includes(fechaObjetivoISO, "-") /\ Len(fechaObjetivoISO) = 7
    THEN fechaObjetivoISO \o <<"-", "0", "1">>
    ELSE fechaObjetivoISO

\* (variant: "<" for "<=")
NotAfter_strict(fechaObjetivoT, ultimaFechaT) == fechaObjetivoT < ultimaFechaT

\* if (fechaObjetivo <= ultimaFecha): the two time values compared.
NotAfter(fechaObjetivoT, ultimaFechaT) == fechaObjetivoT <= ultimaFechaT

calcularMesesHastaFecha(fechaObjetivoISO, ultimaFechaISO, eng, tzMin) ==
    LET fechaObjetivoStr == NormalizeTarget(fechaObjetivoISO)
        fechaObjetivoT   == DateParse(eng, fechaObjetivoStr \o UTCSuffix)
        ultimaFechaT     == DateParse(eng, ultimaFechaISO \o UTCSuffix)
    IN  IF fechaObjetivoT = NaN \/ ultimaFechaT = NaN
        THEN Threw(MsgInvalidDate)
        ELSE IF NotAfter(fechaObjetivoT, ultimaFechaT)
        THEN Threw(MsgNonFuture(fechaObjetivoISO))
        ELSE LET anos  == GetFullYear(fechaObjetivoT, tzMin)
                            - GetFullYear(ultimaFechaT, tzMin)
                 meses == GetMonth(fechaObjetivoT, tzMin)
                            - GetMonth(ultimaFechaT, tzMin)
             IN  Returned(anos * 12 + meses)

-----------------------------------------------------------------------------
(* Configuration and the values a user or a server can supply. *)

LAST_DATA_DATE == <<"2", "0", "2", "1", "-", "0", "3", "-", "0", "1">>

\* Host timezones: west of UTC, UTC, east of UTC (minutes east).
TZOffsets == {0 - 300, 0, 120}

Engines == {"strict", "rollover"}

Pad2(n) == <<Digits[((n \div 10) % 10) + 1], Digits[(n % 10) + 1]>>
Pad4(n) == Pad2(n \div 100) \o Pad2(n % 100)

IsoMonth(y, m)   == Pad4(y) \o <<"-">> \o Pad2(m)
IsoDate(y, m, d) == IsoMonth(y, m) \o <<"-">> \o Pad2(d)

FirstYear == NumVal(SubSeq(LAST_DATA_DATE, 1, 4)) - 1
Years == FirstYear .. FirstYear + YearSpan

Garbage == {<<>>, <<"h", "o", "y">>}

\* The strings tried as a target date: full dates (days past the month's end
\* and month 13 included), year-month shorthands, and text that is no date.
TargetStrings ==
    {IsoDate(y, m, d) : y \in Years, m \in 1..13, d \in {1, 2, 15, 28, 29, 30, 31}}
        \cup {IsoMonth(y, m) : y \in Years, m \in 1..13}
        \cup Garbage

\* The strings tried as a reference date.
RefStrings ==
    {LAST_DATA_DATE, IsoDate(FirstYear, 12, 31), IsoDate(FirstYear + 1, 1, 1),
     IsoDate(FirstYear + 1, 2, 28), IsoDate(FirstYear + 1, 3, 15),
     IsoDate(FirstYear + 1, 2, 30), <<"h", "o", "y">>}

NoCall == <<>>
NoResult == [threw |-> FALSE, value |-> 0 - 1, message |-> <<"(no call)">>]

-----------------------------------------------------------------------------
(* What is written "as written": the calendar reading of a date string,    *)
(* used to state the claims, never by the model of the code.               *)

\* A full date or a shorthand, with a month 1..12 and a day of that month.
IsCalendarDate(s) ==
    /\ Len(s) \in {7, 10}
    /\ s[5] = "-"
    /\ AllDigits(SubSeq(s, 1, 4)) /\ AllDigits(SubSeq(s, 6, 7))
    /\ NumVal(SubSeq(s, 6, 7)) \in 1..12
    /\ Len(s) = 10 =>
         /\ s[8] = "-"
         /\ AllDigits(SubSeq(s, 9, 10))
         /\ NumVal(SubSeq(s, 9, 10)) \in
              1..DaysInMonth(NumVal(SubSeq(s, 1, 4)), NumVal(SubSeq(s, 6, 7)))

IsFullDate(s) == IsCalendarDate(s) /\ Len(s) = 10

WrittenYear(s)  == NumVal(SubSeq(s, 1, 4))
WrittenMonth(s) == NumVal(SubSeq(s, 6, 7))
WrittenDay(s)   == IF Len(s) = 10 THEN NumVal(SubSeq(s, 9, 10)) ELSE 1

\* t is strictly after r, both calendar dates, compared field by field.
WrittenAfter(t, r) ==
    \/ WrittenYear(t) > WrittenYear(r)
    \/ WrittenYear(t) = WrittenYear(r) /\ WrittenMonth(t) > WrittenMonth(r)
    \/ /\ WrittenYear(t) = WrittenYear(r) /\ WrittenMonth(t) = WrittenMonth(r)
       /\ WrittenDay(t) > WrittenDay(r)

WrittenMonths(t, r) ==
    (WrittenYear(t) - WrittenYear(r)) * 12 + (WrittenMonth(t) - WrittenMonth(r))

-----------------------------------------------------------------------------
(* The calculator called directly, once, on any pair of strings. *)

Init ==
    /\ tz \in TZOffsets
    /\ engine \in Engines
    /\ calcArgs = NoCall
    /\ calcResult = NoResult
    /\ pc = "idle"
    /\ in = <<>>
    /\ sent = <<>>
    /\ response = <<>>
    /\ console = <<>>
    /\ btnDisabled = FALSE
    /\ btnText = "Calcular riesgo de sequia"
    /\ errorVisible = FALSE
    /\ errorText = <<>>
    /\ resultsVisible = FALSE
    /\ riesgoText = ""
    /\ riesgoClass = <<"riesgo-box">>
    /\ sequiaText = ""
    /\ tbody = <<>>
    /\ nSubmits = 0
    /\ nCalls = 0

CalcCall ==
    /\ calcArgs = NoCall
    /\ \E t \in TargetStrings, r \in RefStrings :
         /\ calcArgs' = <<t, r>>
         /\ calcResult' = calcularMesesHastaFecha(t, r, engine, tz)
    /\ UNCHANGED <<envVars, formVars, domVars, countVars>>

NextCalc == CalcCall

SpecCalc == Init /\ [][NextCalc]_vars

-----------------------------------------------------------------------------
(* Texts of the page and of the errors. *)

LabelDefault == "Calcular riesgo de sequia"
LabelWorking == "Calculando..."
GLYPH == "[X] "

MsgMissingHorizon ==
    <<"Por favor selecciona un horizonte de meses o una fecha objetivo.">>
MsgMissingScenario == <<"Por favor selecciona un escenario climatico.">>
MsgGeneric == <<"Error en la prediccion.">>

\* Errors the host raises; their wording is the host's.
MsgFailedToFetch == <<"TypeError: Failed to fetch">>
MsgSyntaxError == <<"SyntaxError: Unexpected token in JSON">>
MsgTypeError == <<"TypeError: Cannot read properties">>

-----------------------------------------------------------------------------
(* parseInt, trim, parseFloat. *)

Num(v) == [nan |-> FALSE, v |-> v]
NumNaN == [nan |-> TRUE, v |-> 0]

RECURSIVE TrimStart(_)
TrimStart(s) == IF s # <<>> /\ s[1] = " " THEN TrimStart(Tail(s)) ELSE s

RECURSIVE TrimEnd(_)
TrimEnd(s) == IF s # <<>> /\ s[Len(s)] = " "
              THEN TrimEnd(SubSeq(s, 1, Len(s) - 1)) ELSE s

Trim(s) == TrimEnd(TrimStart(s))

RECURSIVE DigitPrefix(_)
DigitPrefix(s) == IF s # <<>> /\ IsDigit(s[1])
                  THEN <<s[1]>> \o DigitPrefix(Tail(s)) ELSE <<>>

\* parseInt(s, 10): leading blanks skipped, an optional sign, then the longest
\* run of digits; NaN when there is none.
ParseInt(s) ==
    LET t   == TrimStart(s)
        neg == t # <<>> /\ t[1] = "-"
        u   == IF t # <<>> /\ t[1] \in {"-", "+"} THEN Tail(t) ELSE t
        ds  == DigitPrefix(u)
    IN  IF ds = <<>> THEN NumNaN
        ELSE Num(IF neg THEN 0 - NumVal(ds) ELSE NumVal(ds))

\* parseFloat on the level strings of the model, which hold no fraction and
\* no exponent: there it reads what parseInt reads.
ParseFloat(s) == ParseInt(s)

NullLevel == [null |-> TRUE, num |-> NumNaN]

\* nivelUsuario.value.trim() === "" ? null : parseFloat(nivelUsuario.value)
ResolveNivel(nivelValue) ==
    IF Trim(nivelValue) = <<>> THEN NullLevel
    ELSE [null |-> FALSE, num |-> ParseFloat(nivelValue)]

-----------------------------------------------------------------------------
(* The form fields a submission can find. *)

FechaValues ==
    {<<>>,
     IsoMonth(FirstYear + YearSpan, 5),      \* a later year's month, shorthand
     IsoDate(FirstYear + 1, 3, 15),          \* later in the reference's month
     LAST_DATA_DATE,                         \* the reference date itself
     IsoDate(FirstYear + 1, 2, 30),          \* no such day
     <<"h", "o", "y">>}                      \* no date at all

HorizonteValues == {<<>>, <<"3">>, <<"1", "2">>}

EscenarioValues == {"", "rcp45"}

NivelValues == {<<" ">>, <<"4", "2">>}

FormInputs ==
    [fecha : FechaValues, horizonte : HorizonteValues,
     escenario : EscenarioValues, nivel : NivelValues]

\* Two submissions for the runs that vary the response instead: one that
\* reaches the endpoint and one that fails validation.
RenderInputs ==
    {[fecha |-> <<>>, horizonte |-> h, escenario |-> "rcp45", nivel |-> <<" ">>] :
        h \in HorizonteValues}

-----------------------------------------------------------------------------
(* The bodies a response can carry. *)

Absent == [has |-> FALSE, v |-> ""]
Present(v) == [has |-> TRUE, v |-> v]
AbsentList == [has |-> FALSE, v |-> <<>>]

MonthEntry(fecha, nivelIsNumber, nivelThousandths, situacion, sq, bj) ==
    [fecha |-> fecha,
     nivel |-> [isNumber |-> nivelIsNumber, thousandths |-> nivelThousandths],
     situacion |-> situacion, es_sequia |-> sq, es_nivel_bajo |-> bj]

\* The month entries a server sends, in a row: the four combinations of the
\* two flags, and in the middle an entry whose level is not a number.
EntryPool ==
    <<MonthEntry("2021-04", TRUE, 12345, "Alerta", TRUE, FALSE),
      MonthEntry("2021-05", TRUE, 8000, "Sequia", TRUE, TRUE),
      MonthEntry("2021-06", FALSE, 0, "Normal", FALSE, FALSE),
      MonthEntry("2021-07", TRUE, 30004, "Bajo", FALSE, TRUE),
      MonthEntry("2021-08", TRUE, 45500, "Normal", FALSE, FALSE)>>

Reverse(q) == [i \in 1..Len(q) |-> q[Len(q) + 1 - i]]

\* The runs of at most n consecutive elements of q.
Runs(q, n) ==
    {SubSeq(q, p[1], p[1] + p[2] - 1) :
        p \in {x \in (1..Len(q)) \X (0..n) : x[1] + x[2] - 1 <= Len(q)}}

\* Month lists of at most MaxMonths entries: runs of the pool, either way.
MonthLists == Runs(EntryPool, MaxMonths) \cup Runs(Reverse(EntryPool), MaxMonths)

Riesgos == {"Alto", "Bajo"}

JsonObject(detail, riesgo, sequia, mensual) ==
    [kind |-> "object", detail |-> detail, riesgo_global |-> riesgo,
     sequia_probable |-> sequia, prediccion_mensual |-> mensual]

EmptyObject == JsonObject(Absent, Absent, FALSE, AbsentList)
BodyPending == [EmptyObject EXCEPT !.kind = "pending"]
BodyUnparseable == [EmptyObject EXCEPT !.kind = "unparseable"]
BodyNull == [EmptyObject EXCEPT !.kind = "null"]

ErrorBodies ==
    {JsonObject(d, Absent, FALSE, AbsentList) :
        d \in {Absent, Present(""), Present("scenario invalid")}}

PresentList(q) == [has |-> TRUE, v |-> q]

\* sequia_probable as a server computes it: some month is a drought.
AnySequia(q) == \E i \in 1..Len(q) : q[i].es_sequia

\* Well-formed results, and results with a part missing.
ResultBodies ==
    {JsonObject(Absent, Present(r), AnySequia(q), PresentList(q)) :
        r \in Riesgos, q \in MonthLists}
    \cup {JsonObject(Absent, Absent, FALSE, PresentList(<<>>)),
          JsonObject(Absent, Absent, TRUE, AbsentList),
          JsonObject(Absent, Present("Alto"), TRUE, AbsentList)}

\* The bodies that are no result: not JSON, JSON null, error objects.
PlainBodies == {BodyUnparseable, BodyNull} \cup ErrorBodies

Bodies == PlainBodies \cup ResultBodies

\* A few bodies of each kind, for the runs that vary the form fields instead.
CoreBodies ==
    PlainBodies
    \cup {JsonObject(Absent, Present("Alto"), TRUE,
                     PresentList(SubSeq(EntryPool, 1, 1))),
          JsonObject(Absent, Present("Bajo"), FALSE,
                     PresentList(SubSeq(EntryPool, 2, 3))),
          JsonObject(Absent, Absent, FALSE, PresentList(<<>>)),
          JsonObject(Absent, Present("Alto"), TRUE, AbsentList)}

-----------------------------------------------------------------------------
(* The page's display regions as one record, and the two renderers. *)

Dom ==
    [errorVisible |-> errorVisible, errorText |-> errorText,
     resultsVisible |-> resultsVisible, riesgoText |-> riesgoText,
     riesgoClass |-> riesgoClass, sequiaText |-> sequiaText, tbody |-> tbody]

SetDom(d) ==
    /\ errorVisible' = d.errorVisible
    /\ errorText' = d.errorText
    /\ resultsVisible' = d.resultsVisible
    /\ riesgoText' = d.riesgoText
    /\ riesgoClass' = d.riesgoClass
    /\ sequiaText' = d.sequiaText
    /\ tbody' = d.tbody

\* (variant: the rows of the table are left in place)
mostrarError_keepsRows(d, mensaje) ==
    [d EXCEPT !.errorText = <<GLYPH>> \o mensaje,
              !.errorVisible = TRUE,
              !.resultsVisible = FALSE]

\* (variant: the results view is left as it was)
mostrarError_keepsResults(d, mensaje) ==
    [d EXCEPT !.errorText = <<GLYPH>> \o mensaje,
              !.errorVisible = TRUE,
              !.tbody = <<>>]

mostrarError(d, mensaje) ==
    [d EXCEPT !.errorText = <<GLYPH>> \o mensaje,
              !.errorVisible = TRUE,
              !.resultsVisible = FALSE,
              !.tbody = <<>>]

\* String.prototype.toLowerCase on the risk labels.
ToLowerCase(s) ==
    CASE s = "Alto" -> "alto"
      [] s = "Bajo" -> "bajo"
      [] OTHER -> s

\* Number.prototype.toFixed(2) of a level kept in thousandths: hundredths,
\* rounded half up.
ToFixed2(thousandths) == (thousandths + 5) \div 10

\* (variant: the low-level flag is looked at first)
SituacionClase_bajoFirst(mes) ==
    IF mes.es_nivel_bajo THEN "situacion-bajo"
    ELSE IF mes.es_sequia THEN "situacion-sequia"
    ELSE "situacion-normal"

SituacionClase(mes) ==
    IF mes.es_sequia THEN "situacion-sequia"
    ELSE IF mes.es_nivel_bajo THEN "situacion-bajo"
    ELSE "situacion-normal"

BooleanClase(flag) == IF flag THEN "boolean-true" ELSE "boolean-false"
SiNo(flag) == IF flag THEN "Si" ELSE "No"

\* The <tr> built for one month entry (a level that is a number).
Fila(mes) ==
    [fecha |-> mes.fecha,
     nivel |-> ToFixed2(mes.nivel.thousandths),
     situacionClase |-> SituacionClase(mes), situacion |-> mes.situacion,
     sequiaClase |-> BooleanClase(mes.es_sequia), sequia |-> SiNo(mes.es_sequia),
     bajoClase |-> BooleanClase(mes.es_nivel_bajo), bajo |-> SiNo(mes.es_nivel_bajo)]

\* forEach over the month list: rows are appended until an entry's toFixed
\* throws (its level is no number), which ends the loop.
RECURSIVE AppendFilas(_, _)
AppendFilas(rows, meses) ==
    IF meses = <<>> THEN [threw |-> FALSE, rows |-> rows]
    ELSE IF ~Head(meses).nivel.isNumber THEN [threw |-> TRUE, rows |-> rows]
    ELSE AppendFilas(Append(rows, Fila(Head(meses))), Tail(meses))

Rendered(d) == [threw |-> FALSE, message |-> <<>>, dom |-> d]
RenderThrew(d) == [threw |-> TRUE, message |-> MsgTypeError, dom |-> d]

\* (variant: the rows already in the table are kept)
mostrarResultados_keepsRows(d, resultado) ==
    LET d1 == [d EXCEPT !.resultsVisible = TRUE]
        d2 == [d1 EXCEPT
                 !.riesgoText = IF resultado.riesgo_global.has
                                THEN resultado.riesgo_global.v ELSE "",
                 !.riesgoClass = <<"riesgo-box">>]
        d3 == [d2 EXCEPT
                 !.riesgoClass = Append(@, ToLowerCase(resultado.riesgo_global.v)),
                 !.sequiaText = IF resultado.sequia_probable
                                THEN "Sequia probable en el periodo"
                                ELSE "Sin sequia probable en el periodo"]
        filas == AppendFilas(d.tbody, resultado.prediccion_mensual.v)
        d4 == [d3 EXCEPT !.tbody = filas.rows]
    IN  IF resultado.kind = "null" THEN RenderThrew(d1)
        ELSE IF ~resultado.riesgo_global.has THEN RenderThrew(d2)
        ELSE IF ~resultado.prediccion_mensual.has THEN RenderThrew(d3)
        ELSE IF filas.threw THEN RenderThrew(d4)
        ELSE Rendered(d4)

\* mostrarResultados: the page it leaves, and whether it threw on the way.
mostrarResultados(d, resultado) ==
    LET d1 == [d EXCEPT !.resultsVisible = TRUE]
        d2 == [d1 EXCEPT
                 !.riesgoText = IF resultado.riesgo_global.has
                                THEN resultado.riesgo_global.v ELSE "",
                 !.riesgoClass = <<"riesgo-box">>]
        d3 == [d2 EXCEPT
                 !.riesgoClass = Append(@, ToLowerCase(resultado.riesgo_global.v)),
                 !.sequiaText = IF resultado.sequia_probable
                                THEN "Sequia probable en el periodo"
                                ELSE "Sin sequia probable en el periodo",
                 !.tbody = <<>>]
        filas == AppendFilas(<<>>, resultado.prediccion_mensual.v)
        d4 == [d3 EXCEPT !.tbody = filas.rows]
    IN  IF resultado.kind = "null" THEN RenderThrew(d1)
        ELSE IF ~resultado.riesgo_global.has THEN RenderThrew(d2)
        ELSE IF ~resultado.prediccion_mensual.has THEN RenderThrew(d3)
        ELSE IF filas.threw THEN RenderThrew(d4)
        ELSE Rendered(d4)

-----------------------------------------------------------------------------
(* The submit handler. *)

Payload(horizonteMeses, escenarioValor, nivelActual) ==
    [horizonte_meses |-> horizonteMeses, escenario |-> escenarioValor,
     nivel_actual_usuario |-> nivelActual]

\* (variant: the manual value is looked at first)
ResolveHorizonte_manualFirst(f, eng, tzMin) ==
    IF f.horizonte # <<>>
    THEN Returned(ParseInt(f.horizonte))
    ELSE IF f.fecha # <<>>
    THEN LET r == calcularMesesHastaFecha(f.fecha, LAST_DATA_DATE, eng, tzMin)
         IN  IF r.threw THEN r ELSE Returned(Num(r.value))
    ELSE Threw(MsgMissingHorizon)

\* (variant: no final else, the manual value is parsed whatever it holds)
ResolveHorizonte_noElse(f, eng, tzMin) ==
    IF f.fecha # <<>>
    THEN LET r == calcularMesesHastaFecha(f.fecha, LAST_DATA_DATE, eng, tzMin)
         IN  IF r.threw THEN r ELSE Returned(Num(r.value))
    ELSE Returned(ParseInt(f.horizonte))

\* Lines 102-114: the horizon from the target date when there is one, else
\* from the manual value when there is one, else the MissingHorizon error.
ResolveHorizonte(f, eng, tzMin) ==
    IF f.fecha # <<>>
    THEN LET r == calcularMesesHastaFecha(f.fecha, LAST_DATA_DATE, eng, tzMin)
         IN  IF r.threw THEN r ELSE Returned(Num(r.value))
    ELSE IF f.horizonte # <<>>
    THEN Returned(ParseInt(f.horizonte))
    ELSE Threw(MsgMissingHorizon)

\* (variant: the scenario is checked before the horizon is resolved)
Validate_scenarioFirst(f, eng, tzMin) ==
    LET escenarioValor == f.escenario
        nivelActual    == ResolveNivel(f.nivel)
        h              == ResolveHorizonte(f, eng, tzMin)
    IN  IF escenarioValor = "" THEN Threw(MsgMissingScenario)
        ELSE IF h.threw THEN h
        ELSE Returned(Payload(h.value, escenarioValor, nivelActual))

\* Lines 99-124: the payload built from the fields, or the error thrown
\* before any request is made.
Validate(f, eng, tzMin) ==
    LET escenarioValor == f.escenario
        nivelActual    == ResolveNivel(f.nivel)
        h              == ResolveHorizonte(f, eng, tzMin)
    IN  IF h.threw THEN h
        ELSE IF escenarioValor = "" THEN Threw(MsgMissingScenario)
        ELSE Returned(Payload(h.value, escenarioValor, nivelActual))

\* Each input of a set paired with what Validate makes of it, computed once
\* for every host.
Validated(inputs) ==
    [e \in Engines, z \in TZOffsets |-> {<<f, Validate(f, e, z)>> : f \in inputs}]

FormValidated == Validated(FormInputs)
RenderValidated == Validated(RenderInputs)

\* (variant: the request is made twice)
FetchCall_twice(calls, payload) == Append(Append(calls, payload), payload)

\* Line 126: fetch is called with the payload; the calls made are kept.
FetchCall(calls, payload) == Append(calls, payload)

\* (variant: the control is left enabled)
StartControl_leftEnabled ==
    /\ btnDisabled' = FALSE
    /\ btnText' = LabelWorking

\* Lines 93-94: the control is disabled and shows the working label.
StartControl ==
    /\ btnDisabled' = TRUE
    /\ btnText' = LabelWorking

\* A submit event reaches the handler only while the submit control is
\* enabled: the control is the form's submit button, and a browser submits
\* no form through a disabled button.
SubmitDeliverable == ~btnDisabled

\* (variant: the results view is left as it was)
StartView_keepsResults(d) == [d EXCEPT !.errorVisible = FALSE]

\* (variant: the error view is left as it was)
StartView_keepsError(d) == [d EXCEPT !.resultsVisible = FALSE]

\* Lines 93-96.
StartView(d) == [d EXCEPT !.errorVisible = FALSE, !.resultsVisible = FALSE]

\* (variant: the control is not given back)
Finally_staysWorking == UNCHANGED <<btnDisabled, btnText>>

\* (variant: the label is not restored)
Finally_keepsLabel ==
    /\ btnDisabled' = FALSE
    /\ UNCHANGED btnText

\* finally: the control is given back.
Finally ==
    /\ btnDisabled' = FALSE
    /\ btnText' = LabelDefault

\* catch, then finally, on the page d the try block left.
Catch(d, mensaje) ==
    /\ console' = mensaje
    /\ SetDom(mostrarError(d, mensaje))
    /\ Finally
    /\ pc' = "idle"

\* A submit event.  The browser delivers none while the form's only submit
\* control is disabled.  The handler runs to its first await: either
\* validation throws and the handler ends, or the request is made.
SubmitFrom(validated) ==
    /\ SubmitDeliverable
    /\ \E fv \in validated[engine, tz] :
         LET f == fv[1]
             v == fv[2]
         IN  /\ in' = f
             /\ response' = <<>>
             /\ IF v.threw
                THEN /\ sent' = <<>>
                     /\ Catch(StartView(Dom), v.message)
                ELSE /\ sent' = FetchCall(<<>>, v.value)
                     /\ pc' = "fetch"
                     /\ console' = <<>>
                     /\ StartControl
                     /\ SetDom(StartView(Dom))
    /\ UNCHANGED <<envVars, calcVars>>

\* fetch rejects: no response at all.
FetchRejects ==
    /\ pc = "fetch"
    /\ Catch(Dom, MsgFailedToFetch)
    /\ UNCHANGED <<envVars, calcVars, countVars, in, sent, response>>

\* fetch resolves with a response, whose status is known before its body.
FetchResolves ==
    /\ pc = "fetch"
    /\ \E ok \in BOOLEAN :
         /\ response' = [ok |-> ok, body |-> BodyPending]
         /\ pc' = IF ok THEN "jsonOk" ELSE "jsonError"
    /\ UNCHANGED <<envVars, calcVars, countVars, in, sent, console, domVars>>

\* errorData.detail || "Error en la prediccion."
RejectionMessage(errorData) ==
    IF errorData.detail.has /\ errorData.detail.v # ""
    THEN <<errorData.detail.v>>
    ELSE MsgGeneric

\* Lines 134-137: response.json() of a failure response settles.
JsonOfErrorSettlesWith(bodies) ==
    /\ pc = "jsonError"
    /\ \E b \in bodies :
         /\ response' = [response EXCEPT !.body = b]
         /\ Catch(Dom, IF b.kind = "unparseable" THEN MsgSyntaxError
                       ELSE IF b.kind = "null" THEN MsgTypeError
                       ELSE RejectionMessage(b))
    /\ UNCHANGED <<envVars, calcVars, countVars, in, sent>>

\* Lines 139-140: response.json() of a success response settles.
JsonOfResultSettlesWith(bodies) ==
    /\ pc = "jsonOk"
    /\ \E b \in bodies :
         /\ response' = [response EXCEPT !.body = b]
         /\ IF b.kind = "unparseable"
            THEN Catch(Dom, MsgSyntaxError)
            ELSE LET r == mostrarResultados(Dom, b)
                 IN  IF r.threw
                     THEN Catch(r.dom, r.message)
                     ELSE /\ SetDom(r.dom)
                          /\ Finally
                          /\ pc' = "idle"
                          /\ UNCHANGED console
    /\ UNCHANGED <<envVars, calcVars, countVars, in, sent>>

\* Every form input, a few bodies of each kind.
Submit == SubmitFrom(FormValidated) /\ UNCHANGED countVars
JsonOfErrorSettles == JsonOfErrorSettlesWith(CoreBodies)
JsonOfResultSettles == JsonOfResultSettlesWith(CoreBodies)

Next ==
    \/ Submit
    \/ FetchRejects
    \/ FetchResolves
    \/ JsonOfErrorSettles
    \/ JsonOfResultSettles

Spec == Init /\ [][Next]_vars

\* Two form inputs, every body.
SubmitRender == SubmitFrom(RenderValidated) /\ UNCHANGED countVars
JsonOfErrorSettlesRender == JsonOfErrorSettlesWith(Bodies)
JsonOfResultSettlesRender == JsonOfResultSettlesWith(Bodies)

NextRender ==
    \/ SubmitRender
    \/ FetchRejects
    \/ FetchResolves
    \/ JsonOfErrorSettlesRender
    \/ JsonOfResultSettlesRender

SpecRender == Init /\ [][NextRender]_vars

\* Every form input, a few bodies of each kind, and the submit events and
\* the calls of fetch counted, up to MaxSubmits events.
SubmitCounted ==
    /\ nSubmits < MaxSubmits
    /\ SubmitFrom(FormValidated)
    /\ nSubmits' = nSubmits + 1
    /\ nCalls' = nCalls + Len(sent')

NextCounted ==
    \/ SubmitCounted
    \/ FetchRejects
    \/ FetchResolves
    \/ JsonOfErrorSettles
    \/ JsonOfResultSettles

SpecCounted == Init /\ [][NextCounted]_vars

\* The handler under a transport that settles every request and every body
\* it has started.
SpecLive ==
    /\ Spec
    /\ WF_vars(FetchRejects \/ FetchResolves)
    /\ WF_vars(JsonOfErrorSettles)
    /\ WF_vars(JsonOfResultSettles)

-----------------------------------------------------------------------------
(* Error kinds, read off the message an Error carries. *)

IsInvalidDate(msg) == msg = MsgInvalidDate
IsNonFutureTarget(msg) == Len(msg) > 0 /\ msg[1] = "La fecha objetivo ("

ErrorKind(msg) ==
    IF IsInvalidDate(msg) THEN "InvalidDate"
    ELSE IF IsNonFutureTarget(msg) THEN "NonFutureTarget"
    ELSE "Other"

-----------------------------------------------------------------------------
(* Claims about calcularMesesHastaFecha, under SpecCalc. *)

Called == calcArgs # NoCall
Target == calcArgs[1]
Ref    == calcArgs[2]

\* C1: for calendar dates R and T with T strictly after R, the call returns
\* (T.year - R.year) * 12 + (T.month - R.month), the components as written.
C1_MonthCountAsWritten ==
    (Called /\ IsCalendarDate(Target) /\ IsFullDate(Ref)
        /\ WrittenAfter(Target, Ref))
    => calcResult = Returned(WrittenMonths(Target, Ref))

\* C2: for calendar dates R and T with T not after R (T = R included), the
\* call throws the NonFutureTarget error and returns no month count.
C2_NonFutureFails ==
    (Called /\ IsCalendarDate(Target) /\ IsFullDate(Ref)
        /\ ~WrittenAfter(Target, Ref))
    => /\ calcResult.threw
       /\ calcResult.message = MsgNonFuture(Target)

C2_Witness ==
    /\ Called /\ Target = LAST_DATA_DATE /\ Ref = LAST_DATA_DATE
    /\ calcResult.threw /\ IsNonFutureTarget(calcResult.message)

IsShorthand(s) ==
    /\ Len(s) = 7 /\ s[5] = "-"
    /\ AllDigits(SubSeq(s, 1, 4)) /\ AllDigits(SubSeq(s, 6, 7))

\* Same month count when both succeed, same error kind when both fail.
SameOutcome(a, b) ==
    /\ a.threw = b.threw
    /\ ~a.threw => a.value = b.value
    /\ a.threw => ErrorKind(a.message) = ErrorKind(b.message)

\* C4: a call on the shorthand "YYYY-MM" has the outcome of the call on
\* "YYYY-MM-01" with the same reference date.
C4_ShorthandIsFirstDay ==
    (Called /\ IsShorthand(Target))
    => SameOutcome(calcResult,
                   calcularMesesHastaFecha(Target \o <<"-", "0", "1">>, Ref,
                                           engine, tz))

C4_WitnessReturned ==
    /\ Called /\ IsShorthand(Target) /\ Ref = LAST_DATA_DATE
    /\ ~calcResult.threw /\ calcResult.value = 14

C4_WitnessThrew ==
    /\ Called /\ IsShorthand(Target) /\ calcResult.threw
    /\ IsNonFutureTarget(calcResult.message)

-----------------------------------------------------------------------------
(* Claims about the submit handler, under Spec. *)

Submitted == in # <<>>
Completed == Submitted /\ pc = "idle"
Shown(msg) == errorVisible /\ errorText = <<GLYPH>> \o msg

\* C3: every payload handed to fetch carries a horizonte_meses that is an
\* integer greater than 0.
C3_PositiveHorizonSent ==
    \A i \in 1..Len(sent) :
        ~sent[i].horizonte_meses.nan /\ sent[i].horizonte_meses.v > 0

\* C5: with a target date and a manual value both present, the outcome is the
\* one of the target date against LAST_DATA_DATE (its month count in the
\* payload, or its error), and is the same whatever the manual value holds.
C5_TargetDateWins ==
    (Submitted /\ in.fecha # <<>> /\ in.horizonte # <<>>)
    => LET r == calcularMesesHastaFecha(in.fecha, LAST_DATA_DATE, engine, tz)
       IN  /\ r.threw => sent = <<>> /\ console = r.message /\ Shown(r.message)
           /\ ~r.threw =>
                IF in.escenario = ""
                THEN sent = <<>> /\ console = MsgMissingScenario
                ELSE Len(sent) = 1 /\ sent[1].horizonte_meses = Num(r.value)
           /\ \A h \in HorizonteValues :
                Validate([in EXCEPT !.horizonte = h], engine, tz)
                    = Validate(in, engine, tz)

C5_Witness ==
    /\ Submitted /\ in.fecha # <<>> /\ in.horizonte # <<>>
    /\ Len(sent) = 1
    /\ sent[1].horizonte_meses # ParseInt(in.horizonte)

\* C6: a submission with neither a target date nor a manual value ends with
\* the MissingHorizon message shown, and hands nothing to fetch.
C6_MissingHorizonNoCall ==
    (Submitted /\ in.fecha = <<>> /\ in.horizonte = <<>>)
    => /\ pc = "idle"
       /\ sent = <<>>
       /\ console = MsgMissingHorizon
       /\ Shown(MsgMissingHorizon)

C6_Witness ==
    /\ Submitted /\ in.fecha = <<>> /\ in.horizonte = <<>>
    /\ in.escenario # ""
    /\ pc = "idle" /\ sent = <<>> /\ Shown(MsgMissingHorizon)

\* C7: after a completed submission, whatever its exit path, the submit
\* control is enabled and shows its default label.
C7_ControlRestored ==
    Completed => ~btnDisabled /\ btnText = LabelDefault

\* A submission that ended by an exception thrown while rendering.
C7_Witness ==
    /\ Completed /\ response # <<>> /\ response.ok
    /\ response.body.kind = "object"
    /\ console = MsgTypeError
    /\ ~btnDisabled /\ btnText = LabelDefault

\* C8: after a completed submission exactly one of the results view and the
\* error view is visible.
C8_ExactlyOneView ==
    Completed => (errorVisible # resultsVisible)

\* A rendered result after an earlier submission that ended in an error.
C8_Witness ==
    /\ Completed /\ resultsVisible /\ ~errorVisible
    /\ errorText # <<>>

\* C9 (as stated): a submission with an empty scenario ends with the
\* MissingScenario message, whatever the date and horizon fields hold.
C9_ScenarioFirst ==
    (Completed /\ in.escenario = "")
    => console = MsgMissingScenario /\ Shown(MsgMissingScenario)

\* C9 (amended): the horizon is resolved before the scenario is checked.  A
\* submission with an empty scenario sends nothing and ends with the
\* horizon's error (MissingHorizon, InvalidDate, NonFutureTarget) when the
\* horizon does not resolve, and with MissingScenario only when it does.
C9_HorizonFirst ==
    (Submitted /\ in.escenario = "")
    => LET r == calcularMesesHastaFecha(in.fecha, LAST_DATA_DATE, engine, tz)
           expected ==
               IF in.fecha # <<>>
               THEN (IF r.threw THEN r.message ELSE MsgMissingScenario)
               ELSE IF in.horizonte # <<>> THEN MsgMissingScenario
               ELSE MsgMissingHorizon
       IN  /\ pc = "idle" /\ sent = <<>>
           /\ console = expected /\ Shown(expected)
           /\ in.fecha # <<>> /\ r.threw =>
                ErrorKind(r.message) \in {"InvalidDate", "NonFutureTarget"}

\* An empty scenario and no horizon source: the MissingHorizon message.
C9_Witness ==
    /\ Completed /\ in.escenario = ""
    /\ in.fecha = <<>> /\ in.horizonte = <<>>
    /\ Shown(MsgMissingHorizon)

\* An empty scenario with a horizon that resolves: the MissingScenario message.
C9_WitnessScenario ==
    /\ Completed /\ in.escenario = "" /\ in.fecha # <<>>
    /\ Shown(MsgMissingScenario)

\* C10: after a failure response the message logged and shown behind the
\* glyph is the body's detail when it has one, and the generic message
\* otherwise (no detail, an empty detail, a body that is no JSON object).
C10_RejectionMessage ==
    (Completed /\ response # <<>> /\ ~response.ok)
    => LET b   == response.body
           msg == IF b.kind = "object" /\ b.detail.has /\ b.detail.v # ""
                  THEN <<b.detail.v>> ELSE MsgGeneric
       IN  console = msg /\ Shown(msg)

-----------------------------------------------------------------------------
(* Claims about the calls made, under SpecCounted. *)

\* C11: a submission makes at most one call of fetch, and none when its
\* validation fails; no step after the submit event makes another one, so the
\* calls made never outnumber the submit events.
C11_AtMostOneCall ==
    /\ Len(sent) <= 1
    /\ nCalls <= nSubmits
    /\ (Submitted /\ Validate(in, engine, tz).threw) => sent = <<>>

\* Two submit events, the first ended by a transport failure, the second by
\* a remote rejection: two calls in all.
C11_Witness ==
    /\ nSubmits = 2 /\ nCalls = 2
    /\ Completed /\ response # <<>> /\ ~response.ok
    /\ Len(sent) = 1

-----------------------------------------------------------------------------
(* Claims about the handler between its start and its end, under Spec. *)

\* C12: while a submission is pending (its fetch or the parsing of its body
\* has not settled) the submit control is disabled and no submit event can
\* start another submission, so no two submissions are in flight together.
C12_OneInFlight ==
    pc # "idle" => (btnDisabled /\ ~ENABLED Submit)

\* The body of a successful response is being parsed and the control is
\* still disabled.
C12_Witness ==
    /\ pc = "jsonOk"
    /\ response.ok
    /\ btnDisabled

-----------------------------------------------------------------------------
(* Further claims about calcularMesesHastaFecha, under SpecCalc. *)

\* C13: when the target or the reference string is no calendar date (a day
\* that its month does not have, a month 13, text that is no date), the call
\* throws the InvalidDate error; the NonFutureTarget check comes after this
\* one, so the error is InvalidDate also when the date read would not be
\* after the reference.
C13_InvalidDateFails ==
    (Called /\ (~IsCalendarDate(Target) \/ ~IsFullDate(Ref)))
    => calcResult = Threw(MsgInvalidDate)

\* The same on a host whose parser refuses a day past the month's end.
C13_StrictHosts ==
    engine = "strict" => C13_InvalidDateFails

-----------------------------------------------------------------------------
(* Claims about the error state, under Spec. *)

\* The last submission ended in the catch block (the message it logged).
Failed == Completed /\ console # <<>>

\* C14: whatever the error (an invalid or non-future target date, a missing
\* horizon or scenario, a remote rejection, a transport failure), the
\* submission ends with the error view visible and holding one message, the
\* results view hidden, the table without rows and the control enabled, so
\* that a further submission can start; and a submission that ends without
\* showing a result has a visible message.
C14_OneErrorState ==
    /\ Failed =>
         /\ Shown(console)
         /\ ~resultsVisible
         /\ tbody = <<>>
         /\ ~btnDisabled
         /\ ENABLED Submit
    /\ (Completed /\ ~resultsVisible) => (Failed /\ errorVisible)

\* A transport failure after an earlier submission had rendered a result.
C14_Witness ==
    /\ Failed
    /\ console = MsgFailedToFetch
    /\ riesgoText # ""
    /\ tbody = <<>> /\ errorVisible

-----------------------------------------------------------------------------
(* The calculator on hosts in different timezones, under SpecCalc. *)

\* C15: the outcome of a call on given target and reference strings is the
\* one the same call has on a host at any other offset from UTC.
C15_SameInEveryTimezone ==
    Called =>
        \A z \in TZOffsets :
            calcularMesesHastaFecha(Target, Ref, engine, z) = calcResult

\* The same among hosts at or east of UTC only.
C15_EastOfUTC ==
    (Called /\ tz >= 0) =>
        \A z \in {o \in TZOffsets : o >= 0} :
            calcularMesesHastaFecha(Target, Ref, engine, z) = calcResult

-----------------------------------------------------------------------------
(* Claims about the rendered result, under SpecRender. *)

\* The last submission ended with its result rendered.
Succeeded == Completed /\ console = <<>>

\* The month entries of the last response.
Meses == response.body.prediccion_mensual.v

\* C16: in every row rendered, the situation cell carries one of the three
\* categories, by precedence: drought when es_sequia holds (also when
\* es_nivel_bajo holds too), low level when only es_nivel_bajo holds, normal
\* when neither holds; the two yes/no cells show es_sequia and es_nivel_bajo.
C16_SituationCategory ==
    Succeeded =>
        /\ Len(tbody) <= Len(Meses)
        /\ \A i \in 1..Len(tbody) :
             LET mes == Meses[i]
                 row == tbody[i]
             IN  /\ row.fecha = mes.fecha
                 /\ mes.es_sequia => row.situacionClase = "situacion-sequia"
                 /\ (~mes.es_sequia /\ mes.es_nivel_bajo)
                       => row.situacionClase = "situacion-bajo"
                 /\ (~mes.es_sequia /\ ~mes.es_nivel_bajo)
                       => row.situacionClase = "situacion-normal"
                 /\ row.situacion = mes.situacion
                 /\ row.sequia = (IF mes.es_sequia THEN "Si" ELSE "No")
                 /\ row.bajo = (IF mes.es_nivel_bajo THEN "Si" ELSE "No")
                 /\ row.sequiaClase =
                       (IF mes.es_sequia THEN "boolean-true" ELSE "boolean-false")
                 /\ row.bajoClase =
                       (IF mes.es_nivel_bajo THEN "boolean-true" ELSE "boolean-false")

\* A rendered row of an entry with both flags set: it is a drought row.
C16_Witness ==
    /\ Succeeded
    /\ \E i \in 1..Len(tbody) :
         /\ Meses[i].es_sequia /\ Meses[i].es_nivel_bajo
         /\ tbody[i].situacionClase = "situacion-sequia"
         /\ tbody[i].sequia = "Si" /\ tbody[i].bajo = "Si"


\* The risk label in lower case, letter by letter.
LowerLabel(r) ==
    IF r = "Alto" THEN "alto" ELSE IF r = "Bajo" THEN "bajo" ELSE r

\* C17: after a submission that rendered its result, whatever was on the
\* page before, the table holds one row per month entry of that result, in
\* the entries' order, and the risk display carries the base class and the
\* category of that result's risk label only.
C17_OnlyLatestResult ==
    Succeeded =>
        /\ resultsVisible
        /\ Len(tbody) = Len(Meses)
        /\ \A i \in 1..Len(Meses) :
             /\ tbody[i].fecha = Meses[i].fecha
             /\ tbody[i].situacion = Meses[i].situacion
        /\ riesgoText = response.body.riesgo_global.v
        /\ riesgoClass = <<"riesgo-box", LowerLabel(response.body.riesgo_global.v)>>

\* A result of one month and risk "Bajo" rendered on a page on which an
\* earlier submission had failed while rendering.
C17_Witness ==
    /\ Succeeded
    /\ errorText = <<GLYPH>> \o MsgTypeError
    /\ Len(tbody) = 1 /\ Len(Meses) = 1
    /\ riesgoClass = <<"riesgo-box", "bajo">>

-----------------------------------------------------------------------------
(* Claims about a pending submission, under Spec and SpecLive. *)

\* C18: a submission starts by disabling the control, giving it the working
\* label and hiding the error view and the results view, before it validates
\* and before it calls fetch; so while its request is pending neither the
\* error nor the result of an earlier submission is visible.
C18_CleanWhilePending ==
    pc # "idle" =>
        /\ btnDisabled
        /\ btnText = LabelWorking
        /\ ~errorVisible
        /\ ~resultsVisible

\* A request is pending on a page that holds the rows of an earlier result:
\* they are hidden.
C18_Witness ==
    /\ pc = "fetch"
    /\ tbody # <<>>
    /\ ~resultsVisible /\ ~errorVisible
    /\ btnText = LabelWorking


\* C19: every submission that is pending completes, the transport settling
\* the fetch and the parsing of the body: it ends with the result rendered or
\* the error shown, and with the control enabled under its default label.
C19_Completes ==
    (pc # "idle") ~>
        (/\ pc = "idle"
         /\ ~btnDisabled /\ btnText = LabelDefault
         /\ (errorVisible \/ resultsVisible))

\* A submission that awaited the fetch and the body of a failure response,
\* and is over.
C19_Witness ==
    /\ Completed
    /\ sent # <<>> /\ response # <<>> /\ ~response.ok
    /\ ~btnDisabled /\ errorVisible

-----------------------------------------------------------------------------
(* A success response of the wrong shape, under SpecRender. *)

\* A parsed body on which mostrarResultados throws: no risk label, no month
\* list, or a month entry whose level is no number.
WrongShape(b) ==
    /\ b.kind = "object"
    /\ \/ ~b.riesgo_global.has
       \/ ~b.prediccion_mensual.has
       \/ \E i \in 1..Len(b.prediccion_mensual.v) :
            ~b.prediccion_mensual.v[i].nivel.isNumber

\* C20: when mostrarResultados throws on a success response of the wrong
\* shape, after it has shown the results view or appended rows, the
\* submission ends in the error state: the results view hidden again, the
\* table without rows, the error view visible with the error's message.
C20_RenderThrowEndsInError ==
    (Completed /\ response # <<>> /\ response.ok /\ WrongShape(response.body))
    => /\ ~resultsVisible
       /\ tbody = <<>>
       /\ Shown(MsgTypeError)
       /\ ~btnDisabled

\* The response had a well-formed first entry, whose row was appended, and a
\* second entry whose level is no number.
C20_Witness ==
    /\ Completed /\ response # <<>> /\ response.ok
    /\ response.body.kind = "object"
    /\ response.body.riesgo_global.has
    /\ Len(Meses) = 2
    /\ Meses[1].nivel.isNumber /\ ~Meses[2].nivel.isNumber
    /\ tbody = <<>> /\ errorVisible /\ ~resultsVisible
    /\ riesgoText = response.body.riesgo_global.v

====
